---- MODULE Spec2Model ----
(***************************************************************************)
(* The rule engine of src/analysis.py: parse_roster, the twelve registered *)
(* predicates and the driver analyze_teams.                                *)
(*                                                                         *)
(* Python values are records tagged by t:                                  *)
(*   [t |-> "str", s |-> <<"5","0">>]   a str, as its characters          *)
(*   [t |-> "int", n |-> 50]            an int                             *)
(*   [t |-> "float", tenths |-> 505]    a finite float, in tenths (50.5)   *)
(*   [t |-> "nan"], [t |-> "inf"]       float('nan'), float('inf')         *)
(*   [t |-> "none"]                     None                               *)
(*   [t |-> "list", items |-> <<..>>]   a list                             *)
(*   [t |-> "dict", f |-> [class |-> .., pos |-> .., height |-> ..,        *)
(*                         rsci_rank |-> .., stats_summary |-> ..]]        *)
(*        a dict over the player keys; a key the dict does not hold has    *)
(*        the marker [t |-> "missing"]                                     *)
(*   [t |-> "src", parse |-> p, val |-> v]   a str holding Python source:  *)
(*        ast.literal_eval ends p ("ok" and the value v, or the exception  *)
(*        it raises)                                                       *)
(* A row (pd.Series) is a function from the column names it has to values. *)
(* The outcome of a call is [exc |-> "none", val |-> v] when it returns v  *)
(* and [exc |-> E, val |-> FALSE] when it raises E.                        *)
(***************************************************************************)
EXTENDS Integers, Sequences, FiniteSets, TLC

VARIABLES
    row,          \* the record a predicate is called on
    fn,           \* the registry name of the predicate called last
    res,          \* the outcome of that call
    roster_str,   \* the argument parse_roster is called on
    parsed,       \* the outcome of that call
    stats_df,     \* analyze_teams: the input table
    analysis_df,  \* analyze_teams: the table being built
    pc,           \* analyze_teams: position in the function
    col           \* analyze_teams: index of the registry entry being processed

vars == <<row, fn, res, roster_str, parsed, stats_df, analysis_df, pc, col>>

----------------------------------------------------------------------------
(* Values *)

StrV(s) == [t |-> "str", s |-> s]
IntV(n) == [t |-> "int", n |-> n]
FloatV(k) == [t |-> "float", tenths |-> k]
NaN == [t |-> "nan"]
Inf == [t |-> "inf"]
None == [t |-> "none"]
Missing == [t |-> "missing"]
ListV(items) == [t |-> "list", items |-> items]
Src(v) == [t |-> "src", parse |-> "ok", val |-> v]
BadSrc(e) == [t |-> "src", parse |-> e, val |-> None]
Player(c, p, h, r, s) ==
    [t |-> "dict",
     f |-> [class |-> c, pos |-> p, height |-> h, rsci_rank |-> r, stats_summary |-> s]]

PlayerKeys == {"class", "pos", "height", "rsci_rank", "stats_summary"}

Ret(v) == [exc |-> "none", val |-> v]
Raise(e) == [exc |-> e, val |-> FALSE]

(* the exception classes an exception named e is an instance of: its own, and
   for the subclasses of SyntaxError and ValueError the classes they derive from *)
Classes(e) ==
    CASE e = "IndentationError" -> {e, "SyntaxError"}
      [] e = "TabError" -> {e, "IndentationError", "SyntaxError"}
      [] e \in {"UnicodeEncodeError", "UnicodeDecodeError", "UnicodeTranslateError"} ->
            {e, "UnicodeError", "ValueError"}
      [] e = "UnicodeError" -> {e, "ValueError"}
      [] OTHER -> {e}

(* an except clause naming the classes caught handles the exception named e *)
Handles(caught, e) == Classes(e) \cap caught # {}

(* try: ... except (caught): return False *)
Catch(o, caught) == IF Handles(caught, o.exc) THEN Ret(FALSE) ELSE o

----------------------------------------------------------------------------
(* Text *)

\* the decimal digits (Unicode category Nd) that int(), float() and the regex
\* class \d accept, by value: DigitsOf[v + 1] are the digits of value v. They
\* are the ASCII digits and those of the scripts whose characters a string of
\* this module can hold.
DigitsOf ==
    <<{"0", "۰", "߀", "০", "૦", "௦", "೦", "෦", "໐", "႐", "០", "᧐", "᪀", "᪐", "᮰", "꣐", "꧐",
       "꧰", "꯰"},
      {"1", "۱", "߁", "১", "૧", "௧", "೧", "෧", "໑", "႑", "១", "᧑", "᪁", "᪑", "᮱", "꣑", "꧑",
       "꧱", "꯱"},
      {"2", "۲", "߂", "২", "૨", "௨", "೨", "෨", "໒", "႒", "២", "᧒", "᪂", "᪒", "᮲", "꣒", "꧒",
       "꧲", "꯲"},
      {"3", "۳", "߃", "৩", "૩", "௩", "೩", "෩", "໓", "႓", "៣", "᧓", "᪃", "᪓", "᮳", "꣓", "꧓",
       "꧳", "꯳"},
      {"4", "۴", "߄", "৪", "૪", "௪", "೪", "෪", "໔", "႔", "៤", "᧔", "᪄", "᪔", "᮴", "꣔", "꧔",
       "꧴", "꯴"},
      {"5", "۵", "߅", "৫", "૫", "௫", "೫", "෫", "໕", "႕", "៥", "᧕", "᪅", "᪕", "᮵", "꣕", "꧕",
       "꧵", "꯵"},
      {"6", "۶", "߆", "৬", "૬", "௬", "೬", "෬", "໖", "႖", "៦", "᧖", "᪆", "᪖", "᮶", "꣖", "꧖",
       "꧶", "꯶"},
      {"7", "۷", "߇", "৭", "૭", "௭", "೭", "෭", "໗", "႗", "៧", "᧗", "᪇", "᪗", "᮷", "꣗", "꧗",
       "꧷", "꯷"},
      {"8", "۸", "߈", "৮", "૮", "௮", "೮", "෮", "໘", "႘", "៨", "᧘", "᪈", "᪘", "᮸", "꣘", "꧘",
       "꧸", "꯸"},
      {"9", "۹", "߉", "৯", "૯", "௯", "೯", "෯", "໙", "႙", "៩", "᧙", "᪉", "᪙", "᮹", "꣙", "꧙",
       "꧹", "꯹"}>>

Digits == UNION {DigitsOf[i] : i \in 1..10}

\* the whitespace int() strips, among the characters a string of this module can
\* hold: space, tab, newline, carriage return, form feed, and
VT == ""             \* the vertical tab, 0x0b
NEL == ""            \* next line, 0x85
NBSP == " "           \* no-break space, 0xa0
OghamSpace == " "     \* ogham space mark, 0x1680

WhiteSpace == {" ", "\t", "\n", "\r", "\f", VT, NEL, NBSP, OghamSpace}

\* the separators 0x1c to 0x1f: whitespace to the regex class \s, not to int()
FS == ""
GS == ""
RS == ""
US == ""

\* the characters the regex class \s matches
RegexSpace == WhiteSpace \cup {FS, GS, RS, US}

DigitVal(c) == (CHOOSE i \in 1..10 : c \in DigitsOf[i]) - 1

IsDigit(c) == c \in Digits

\* a run of digits without its leading zeros
Significant(ds) ==
    IF \A i \in 1..Len(ds) : DigitVal(ds[i]) = 0 THEN <<>>
    ELSE SubSeq(ds,
                CHOOSE i \in 1..Len(ds) :
                    DigitVal(ds[i]) # 0 /\ \A j \in 1..(i - 1) : DigitVal(ds[j]) = 0,
                Len(ds))

RECURSIVE Horner(_)
Horner(ds) ==
    IF ds = <<>> THEN 0
    ELSE Horner(SubSeq(ds, 1, Len(ds) - 1)) * 10 + DigitVal(ds[Len(ds)])

\* the number a run of digits writes; its leading zeros add nothing to it
Decimal(ds) == Horner(Significant(ds))

RECURSIVE LStrip(_)
LStrip(s) == IF s # <<>> /\ Head(s) \in WhiteSpace THEN LStrip(Tail(s)) ELSE s

RECURSIVE RStrip(_)
RStrip(s) ==
    IF s # <<>> /\ s[Len(s)] \in WhiteSpace THEN RStrip(SubSeq(s, 1, Len(s) - 1)) ELSE s

\* the rest of s after the longest run of \s at its start
RECURSIVE SkipSpace(_)
SkipSpace(s) == IF s # <<>> /\ Head(s) \in RegexSpace THEN SkipSpace(Tail(s)) ELSE s

Strip(s) == RStrip(LStrip(s))

\* the most digits int() converts (sys.int_max_str_digits): on a text of more
\* digits it raises ValueError
int_max_str_digits == 4300

(* int(str): surrounding whitespace, an optional sign, then digits in which
   single underscores may separate digits; ValueError on any other text and on
   one of more than int_max_str_digits digits *)
int_of_text(s) ==
    LET st == Strip(s)
        signed == st # <<>> /\ st[1] \in {"+", "-"}
        body == IF signed THEN Tail(st) ELSE st
        wellformed ==
            /\ body # <<>>
            /\ IsDigit(body[1])
            /\ IsDigit(body[Len(body)])
            /\ \A i \in 1..Len(body) : IsDigit(body[i]) \/ body[i] = "_"
            /\ \A i \in 1..(Len(body) - 1) : ~(body[i] = "_" /\ body[i + 1] = "_")
        digits == SelectSeq(body, IsDigit)
        magnitude == Decimal(digits)
    IN  IF ~wellformed THEN Raise("ValueError")
        ELSE IF Len(digits) > int_max_str_digits THEN Raise("ValueError")
        ELSE IF signed /\ st[1] = "-" THEN Ret(0 - magnitude)
        ELSE Ret(magnitude)

(* int(x) *)
py_int(v) ==
    CASE v.t = "int" -> Ret(v.n)
      [] v.t = "float" ->
            Ret(IF v.tenths >= 0 THEN v.tenths \div 10 ELSE 0 - ((0 - v.tenths) \div 10))
      [] v.t = "nan" -> Raise("ValueError")
      [] v.t = "inf" -> Raise("OverflowError")
      [] v.t = "str" -> int_of_text(v.s)
      [] v.t \in {"none", "list", "dict"} -> Raise("TypeError")

(* row[key] *)
GetItem(r, key) == IF key \in DOMAIN r THEN Ret(r[key]) ELSE Raise("KeyError")

----------------------------------------------------------------------------
(* The rank predicates *)

is_good_scoring_team(r) ==
    LET cell == GetItem(r, "PTS Rank")
        rank == IF cell.exc # "none" THEN cell ELSE py_int(cell.val)
    IN  Catch(IF rank.exc # "none" THEN rank ELSE Ret(rank.val <= 50),
              {"ValueError", "KeyError"})

forces_turnovers(r) ==
    LET cell == GetItem(r, "Opponent TOV Rank")
        rank == IF cell.exc # "none" THEN cell ELSE py_int(cell.val)
    IN  Catch(IF rank.exc # "none" THEN rank ELSE Ret(rank.val <= 50),
              {"ValueError", "KeyError"})

protects_basketball(r) ==
    LET cell == GetItem(r, "TOV Rank")
        rank == IF cell.exc # "none" THEN cell ELSE py_int(cell.val)
    IN  Catch(IF rank.exc # "none" THEN rank ELSE Ret(rank.val >= 300),
              {"ValueError", "KeyError"})

high_volume_three_point_team(r) ==
    LET cell == GetItem(r, "3P Rank")
        rank == IF cell.exc # "none" THEN cell ELSE py_int(cell.val)
    IN  Catch(IF rank.exc # "none" THEN rank ELSE Ret(rank.val <= 50),
              {"ValueError", "KeyError"})

elite_offensive_rebounding(r) ==
    LET cell == GetItem(r, "ORB Rank")
        rank == IF cell.exc # "none" THEN cell ELSE py_int(cell.val)
    IN  Catch(IF rank.exc # "none" THEN rank ELSE Ret(rank.val <= 50),
              {"ValueError", "KeyError"})

good_defense(r) ==
    LET cell == GetItem(r, "Opponent PTS Rank")
        rank == IF cell.exc # "none" THEN cell ELSE py_int(cell.val)
    IN  Catch(IF rank.exc # "none" THEN rank ELSE Ret(rank.val <= 50),
              {"ValueError", "KeyError"})

defends_three_point(r) ==
    LET cell == GetItem(r, "Opponent 3P% Rank")
        rank == IF cell.exc # "none" THEN cell ELSE py_int(cell.val)
    IN  Catch(IF rank.exc # "none" THEN rank ELSE Ret(rank.val <= 50),
              {"ValueError", "KeyError"})

good_free_throw_team(r) ==
    LET cell == GetItem(r, "FT% Rank")
        rank == IF cell.exc # "none" THEN cell ELSE py_int(cell.val)
    IN  Catch(IF rank.exc # "none" THEN rank ELSE Ret(rank.val <= 50),
              {"ValueError", "KeyError"})

----------------------------------------------------------------------------
(* The roster parser *)

IsStr(v) == v.t \in {"str", "src"}

(* ast.literal_eval on a str holding Python source *)
literal_eval(v) == IF v.parse = "ok" THEN Ret(v.val) ELSE Raise(v.parse)

parse_roster(v) ==
    LET o == IF IsStr(v) THEN literal_eval(v) ELSE Ret(v)
    IN  IF Handles({"ValueError", "SyntaxError"}, o.exc) THEN Ret(ListV(<<>>)) ELSE o

----------------------------------------------------------------------------
(* Python's protocols on the values a parsed roster can be *)

PresentKeys(d) == {k \in PlayerKeys : d.f[k].t # "missing"}

(* bool(x) is False *)
Falsy(v) ==
    \/ v.t = "none"
    \/ v.t = "int" /\ v.n = 0
    \/ v.t = "float" /\ v.tenths = 0
    \/ v.t = "str" /\ v.s = <<>>
    \/ v.t = "list" /\ v.items = <<>>
    \/ v.t = "dict" /\ PresentKeys(v) = {}

(* len(x) *)
py_len(v) ==
    CASE v.t = "list" -> Ret(Len(v.items))
      [] v.t = "str" -> Ret(Len(v.s))
      [] v.t = "dict" -> Ret(Cardinality(PresentKeys(v)))
      [] OTHER -> Raise("TypeError")

FirstN(s, n) == SubSeq(s, 1, IF Len(s) < n THEN Len(s) ELSE n)

(* slice5 without the slice: the whole roster *)
slice_none(v) ==
    CASE v.t \in {"list", "str"} -> Ret(v)
      [] OTHER -> Raise("TypeError")

(* x[:5]; a dict cannot be sliced (Python 3.11: TypeError, unhashable type:
   'slice') *)
slice5(v) ==
    CASE v.t = "list" -> Ret(ListV(FirstN(v.items, 5)))
      [] v.t = "str" -> Ret(StrV(FirstN(v.s, 5)))
      [] OTHER -> Raise("TypeError")

(* the elements a for loop over x visits *)
Elements(v) ==
    IF v.t = "list" THEN v.items ELSE [i \in 1..Len(v.s) |-> StrV(<<v.s[i]>>)]

(* player.get(key, '') *)
DictGet(p, key) ==
    IF p.t # "dict" THEN Raise("AttributeError")
    ELSE Ret(IF p.f[key].t = "missing" THEN StrV(<<>>) ELSE p.f[key])

(* x in [texts] *)
InTexts(v, texts) == v.t = "str" /\ v.s \in texts

(* The common head of the four roster predicates: the top_5 they go on with,
   exc "return" for the early return False, or the exception raised *)
top_5(r) ==
    LET cell == GetItem(r, "roster")
        pr == IF cell.exc # "none" THEN cell ELSE parse_roster(cell.val)
        n == IF pr.exc # "none" THEN pr ELSE py_len(pr.val)
    IN  IF pr.exc # "none" THEN pr
        ELSE IF Falsy(pr.val) THEN Raise("return")
        ELSE IF n.exc # "none" THEN n
        ELSE IF n.val < 5 THEN Raise("return")
        ELSE slice5(pr.val)

----------------------------------------------------------------------------
(* The roster predicates *)

(* sum(1 for player in top_5 if player.get('class', '') in classes) *)
RECURSIVE CountClass(_, _)
CountClass(players, classes) ==
    IF players = <<>> THEN Ret(0)
    ELSE LET c == DictGet(Head(players), "class")
             rest == CountClass(Tail(players), classes)
         IN  IF c.exc # "none" THEN c
             ELSE IF rest.exc # "none" THEN rest
             ELSE Ret(rest.val + (IF InTexts(c.val, classes) THEN 1 ELSE 0))

(* has_experienced_core with a tie counted as experienced *)
has_experienced_core_or_tie(r) ==
    LET top == top_5(r)
        upperclassmen == CountClass(Elements(top.val), {<<"J", "R">>, <<"S", "R">>})
        lowerclassmen == CountClass(Elements(top.val), {<<"F", "R">>, <<"S", "O">>})
    IN  IF top.exc = "return" THEN Ret(FALSE)
        ELSE Catch(IF top.exc # "none" THEN top
                   ELSE IF upperclassmen.exc # "none" THEN upperclassmen
                   ELSE IF lowerclassmen.exc # "none" THEN lowerclassmen
                   ELSE Ret(upperclassmen.val >= lowerclassmen.val),
                   {"KeyError", "AttributeError"})

has_experienced_core(r) ==
    LET top == top_5(r)
        upperclassmen == CountClass(Elements(top.val), {<<"J", "R">>, <<"S", "R">>})
        lowerclassmen == CountClass(Elements(top.val), {<<"F", "R">>, <<"S", "O">>})
    IN  IF top.exc = "return" THEN Ret(FALSE)
        ELSE Catch(IF top.exc # "none" THEN top
                   ELSE IF upperclassmen.exc # "none" THEN upperclassmen
                   ELSE IF lowerclassmen.exc # "none" THEN lowerclassmen
                   ELSE Ret(upperclassmen.val > lowerclassmen.val),
                   {"KeyError", "AttributeError"})

\* the text of group(1) when a run of digits is matched at the start of s;
\* the empty text when there is no match
LeadingDigits(s) ==
    SubSeq(s, 1, CHOOSE n \in 0..Len(s) :
                     /\ n < Len(s) => ~IsDigit(s[n + 1])
                     /\ \A i \in 1..n : IsDigit(s[i]))

(* match and int(match.group(1)) <= 100: the truth value of the condition, or
   the ValueError of int() on a run of more than int_max_str_digits digits *)
IsTopRecruit(rsci) ==
    LET group == LeadingDigits(rsci)
        rank == int_of_text(group)
    IN  IF group = <<>> THEN Ret(FALSE)
        ELSE IF rank.exc # "none" THEN rank
        ELSE Ret(rank.val <= 100)

(* the for loop of has_top_recruits: the final top_recruits *)
RECURSIVE CountRecruits(_)
CountRecruits(players) ==
    IF players = <<>> THEN Ret(0)
    ELSE LET rsci == DictGet(Head(players), "rsci_rank")
             rest == CountRecruits(Tail(players))
         IN  IF rsci.exc # "none" THEN rsci
             ELSE IF rsci.val.t # "str" THEN Raise("TypeError")
             ELSE IF IsTopRecruit(rsci.val.s).exc # "none" THEN IsTopRecruit(rsci.val.s)
             ELSE IF rest.exc # "none" THEN rest
             ELSE Ret(rest.val + (IF IsTopRecruit(rsci.val.s).val THEN 1 ELSE 0))

has_top_recruits(r) ==
    LET top == top_5(r)
        top_recruits == CountRecruits(Elements(top.val))
    IN  IF top.exc = "return" THEN Ret(FALSE)
        ELSE Catch(IF top.exc # "none" THEN top
                   ELSE IF top_recruits.exc # "none" THEN top_recruits
                   ELSE Ret(top_recruits.val >= 2),
                   {"KeyError", "AttributeError"})

\* re.match of the points pattern (digits, an optional dot, digits, whitespace,
\* then Pts) at the start of s: whether it matches, and the integer digits and
\* the fraction digits of group(1)
pts_match(s) ==
    LET whole == LeadingDigits(s)
        r1 == SubSeq(s, Len(whole) + 1, Len(s))
        dot == r1 # <<>> /\ Head(r1) = "."
        r2 == IF dot THEN Tail(r1) ELSE r1
        frac == LeadingDigits(r2)
        r3 == SkipSpace(SubSeq(r2, Len(frac) + 1, Len(r2)))
    IN  [matched |-> whole # <<>> /\ Len(r3) >= 3 /\ SubSeq(r3, 1, 3) = <<"P", "t", "s">>,
         whole |-> whole,
         frac |-> frac]

\* float() gives the double nearest to the figure, the even one of two equally
\* near. The doubles next to 15.0 are 2^-49 away from it on both sides and 15.0
\* is the even one, so float(group) is 15.0 exactly for the figures from
\* 15 - 2^-50 to 15 + 2^-50. HalfGap are the 50 digits after the decimal point
\* of 2^-50, BelowGap those of 1 - 2^-50.
HalfGap ==
    <<0, 0, 0, 0, 0, 0, 0, 0, 0, 0, 0, 0, 0, 0, 0, 8, 8, 8, 1, 7, 8, 4, 1, 9, 7,
      0, 0, 1, 2, 5, 2, 3, 2, 3, 3, 8, 9, 0, 5, 3, 3, 4, 4, 7, 2, 6, 5, 6, 2, 5>>

BelowGap ==
    <<9, 9, 9, 9, 9, 9, 9, 9, 9, 9, 9, 9, 9, 9, 9, 1, 1, 1, 8, 2, 1, 5, 8, 0, 2,
      9, 9, 8, 7, 4, 7, 6, 7, 6, 6, 1, 0, 9, 4, 6, 6, 5, 5, 2, 7, 3, 4, 3, 7, 5>>

\* the digit values of a run of digits
DigitVals(ds) == [i \in 1..Len(ds) |-> DigitVal(ds[i])]

\* the digit at place i after the decimal point of the fraction f, 0 past its end
Place(f, i) == IF i <= Len(f) THEN f[i] ELSE 0

\* the fraction f against the fraction g, both as digit values: 1 greater, 0 equal,
\* -1 less
FracCmp(f, g) ==
    LET n == IF Len(f) > Len(g) THEN Len(f) ELSE Len(g)
        differ == {i \in 1..n : Place(f, i) # Place(g, i)}
        first == CHOOSE i \in differ : \A j \in differ : i <= j
    IN  IF differ = {} THEN 0 ELSE IF Place(f, first) > Place(g, first) THEN 1 ELSE -1

\* float(group) against 15: 1 greater, 0 equal, -1 less
float_cmp_15(m) ==
    LET whole == Significant(m.whole)
        frac == DigitVals(m.frac)
    IN  IF Len(whole) > 2 \/ Decimal(whole) > 15 THEN 1
        ELSE IF Decimal(whole) = 15 THEN (IF FracCmp(frac, HalfGap) = 1 THEN 1 ELSE 0)
        ELSE IF Decimal(whole) = 14 THEN (IF FracCmp(frac, BelowGap) = -1 THEN -1 ELSE 0)
        ELSE -1

(* PointsAbove15 with 15.0 included *)
PointsAtLeast15(m) == float_cmp_15(m) >= 0

(* float(group) > 15 *)
PointsAbove15(m) == float_cmp_15(m) = 1

(* the for loop of has_scoring_guard, to the return that ends it *)
RECURSIVE ScanGuards(_)
ScanGuards(players) ==
    IF players = <<>> THEN Ret(FALSE)
    ELSE LET pos == DictGet(Head(players), "pos")
             summary == DictGet(Head(players), "stats_summary")
         IN  IF pos.exc # "none" THEN pos
             ELSE IF ~InTexts(pos.val, {<<"G">>, <<"P", "G">>, <<"S", "G">>})
                  THEN ScanGuards(Tail(players))
             ELSE IF Falsy(summary.val) THEN ScanGuards(Tail(players))
             ELSE IF summary.val.t # "str" THEN Raise("TypeError")
             ELSE LET pts == pts_match(summary.val.s)
                  IN  IF pts.matched /\ PointsAbove15(pts) THEN Ret(TRUE)
                      ELSE ScanGuards(Tail(players))

has_scoring_guard(r) ==
    LET top == top_5(r)
    IN  IF top.exc = "return" THEN Ret(FALSE)
        ELSE Catch(IF top.exc # "none" THEN top ELSE ScanGuards(Elements(top.val)),
                   {"KeyError", "AttributeError"})

(* str.split(sep) *)
RECURSIVE Split(_, _)
Split(s, sep) ==
    IF \A i \in 1..Len(s) : s[i] # sep THEN <<s>>
    ELSE LET i == CHOOSE j \in 1..Len(s) : s[j] = sep /\ \A k \in 1..(j - 1) : s[k] # sep
         IN  <<SubSeq(s, 1, i - 1)>> \o Split(SubSeq(s, i + 1, Len(s)), sep)

(* feet, inches = map(int, height.split('-')); total_inches = feet * 12 + inches:
   ValueError when the parts are not exactly two texts int() accepts *)
total_inches(h) ==
    LET parts == Split(h, "-")
        feet == int_of_text(parts[1])
        inches == int_of_text(parts[2])
    IN  IF Len(parts) < 2 THEN Raise("ValueError")
        ELSE IF feet.exc # "none" THEN feet
        ELSE IF inches.exc # "none" THEN inches
        ELSE IF Len(parts) > 2 THEN Raise("ValueError")
        ELSE Ret(feet.val * 12 + inches.val)

(* IsTall with the 6-8 of the docstring, 80 inches *)
IsTallFrom80(h) ==
    LET inches == total_inches(h)
    IN  inches.exc = "none" /\ inches.val >= 80

(* the try block of has_size: whether the entry is counted *)
IsTall(h) ==
    LET inches == total_inches(h)
    IN  inches.exc = "none" /\ inches.val >= 78

(* the for loop of has_size: the final tall_players *)
RECURSIVE CountTall(_)
CountTall(players) ==
    IF players = <<>> THEN Ret(0)
    ELSE LET height == DictGet(Head(players), "height")
             rest == CountTall(Tail(players))
         IN  IF height.exc # "none" THEN height
             ELSE IF Falsy(height.val) THEN rest
             ELSE IF height.val.t # "str" THEN Raise("AttributeError")
             ELSE IF rest.exc # "none" THEN rest
             ELSE Ret(rest.val + (IF IsTall(height.val.s) THEN 1 ELSE 0))

has_size(r) ==
    LET top == top_5(r)
        tall_players == CountTall(Elements(top.val))
    IN  IF top.exc = "return" THEN Ret(FALSE)
        ELSE Catch(IF top.exc # "none" THEN top
                   ELSE IF tall_players.exc # "none" THEN tall_players
                   ELSE Ret(tall_players.val >= 3),
                   {"KeyError", "AttributeError"})

----------------------------------------------------------------------------
(* The registry *)

ANALYSIS_FUNCTIONS ==
    <<"Can Score", "Forces Turnovers", "Protects the Ball", "High Volume 3PT Team",
      "Elite Offensive Rebounding", "Good Defense", "Defends Three Point",
      "Good Free Throw Team", "Experienced Core", "Multiple Top Recruits",
      "Has Scoring Guard", "Has Size">>

(* ANALYSIS_FUNCTIONS[name](r) *)
Apply(name, r) ==
    CASE name = "Can Score" -> is_good_scoring_team(r)
      [] name = "Forces Turnovers" -> forces_turnovers(r)
      [] name = "Protects the Ball" -> protects_basketball(r)
      [] name = "High Volume 3PT Team" -> high_volume_three_point_team(r)
      [] name = "Elite Offensive Rebounding" -> elite_offensive_rebounding(r)
      [] name = "Good Defense" -> good_defense(r)
      [] name = "Defends Three Point" -> defends_three_point(r)
      [] name = "Good Free Throw Team" -> good_free_throw_team(r)
      [] name = "Experienced Core" -> has_experienced_core(r)
      [] name = "Multiple Top Recruits" -> has_top_recruits(r)
      [] name = "Has Scoring Guard" -> has_scoring_guard(r)
      [] name = "Has Size" -> has_size(r)

----------------------------------------------------------------------------
(* Bounds of the inputs *)

MaxRankLen == 3     \* characters of an enumerated rank text
MaxRoster == 6      \* entries of a roster
MaxHeightLen == 3   \* characters of an enumerated height text
MaxRsciLen == 3     \* characters of an enumerated recruit-rank text
MaxPtsLen == 4      \* characters of an enumerated points figure
MaxRows == 2        \* rows of a table

\* a run of n zeros
ZeroRun(n) == [i \in 1..n |-> "0"]

\* digit runs at the limit of int(): the number t written with zeros before it,
\* in int_max_str_digits digits and in one digit more
AtLimit(t) == ZeroRun(int_max_str_digits - Len(t)) \o t
OverLimit(t) == ZeroRun(int_max_str_digits + 1 - Len(t)) \o t

RECURSIVE TextsUpTo(_, _)
TextsUpTo(alphabet, n) ==
    IF n = 0 THEN {<<>>}
    ELSE LET shorter == TextsUpTo(alphabet, n - 1)
         IN  shorter \cup {Append(t, c) : t \in {x \in shorter : Len(x) = n - 1}, c \in alphabet}

----------------------------------------------------------------------------
(* Rows *)

RankFields ==
    {"PTS Rank", "Opponent TOV Rank", "TOV Rank", "3P Rank", "ORB Rank",
     "Opponent PTS Rank", "Opponent 3P% Rank", "FT% Rank"}

Columns == {"year", "team", "roster"} \cup RankFields

EmptyText == StrV(<<>>)

BaseRow ==
    [c \in Columns |->
        CASE c = "year" -> IntV(2024)
          [] c = "team" -> StrV(<<"D", "u", "k", "e">>)
          [] c = "roster" -> Src(ListV(<<>>))
          [] OTHER -> StrV(<<"1", "0", "0">>)]

With(r, key, v) == [c \in DOMAIN r \cup {key} |-> IF c = key THEN v ELSE r[c]]
Without(r, key) == [c \in DOMAIN r \ {key} |-> r[c]]

RankSamples ==
    {StrV(<<"5", "0">>), StrV(<<"5", "1">>), StrV(<<"a", "b", "c">>),
     StrV(<<"3", "0", "0">>), StrV(<<"2", "9", "9">>), StrV(<<"3", "0", "1">>),
     StrV(<<"4", "9">>), StrV(<<"5", "_", "0">>), StrV(<<"_", "5", "0">>),
     StrV(<<"5", "_", "_", "0">>), StrV(<<"+", "5", "0">>), StrV(<<"5", "0", ".", "0">>),
     StrV(<<"3", "0", "0", "t", "h">>), StrV(<<" ", "3", "0", "0", " ">>),
     StrV(<<"\t", "5", "0">>), StrV(<<"5", "0", "\n">>), StrV(<<"\f", "5", "1", "\r">>),
     StrV(<<"\t", "3", "0", "0">>), StrV(<<"3", "0", "0", "\r", "\n">>),
     StrV(<<"2", "9", "9", "\n">>), StrV(<<"5", "\t", "0">>), StrV(<<"+", "\t", "5", "0">>),
     StrV(<<VT, "5", "0">>), StrV(<<"5", "0", VT>>), StrV(<<NEL, "3", "0", "0", NBSP>>),
     StrV(<<OghamSpace, "5", "1">>), StrV(<<FS, "5", "0">>), StrV(<<"5", "0", US>>),
     StrV(<<GS, "3", "0", "0", RS>>), StrV(<<"໕", "໐">>), StrV(<<"৫", "1">>),
     StrV(<<"໓", "০", "໐">>), StrV(<<"-", "໕">>), StrV(<<"໕", "_", "০">>),
     StrV(AtLimit(<<"5", "0">>)), StrV(OverLimit(<<"5", "0">>)),
     StrV(AtLimit(<<"3", "0", "0">>)), StrV(OverLimit(<<"3", "0", "0">>)),
     StrV(<<" ", "-">> \o AtLimit(<<"5">>) \o <<"\n">>),
     StrV(<<" ", "-">> \o OverLimit(<<"5">>) \o <<"\n">>),
     NaN, None, Inf}
    \cup {IntV(n) : n \in {0, 1, 49, 50, 51, 299, 300, 301, 350}}
    \cup {FloatV(k) : k \in {10, 495, 500, 505, 509, 510, 2990, 2999, 3000, 3005}}

RankTexts == {StrV(t) : t \in TextsUpTo({"0", "1", "5", "a", " ", "\t", "-"}, MaxRankLen)}

RankValues == RankSamples \cup RankTexts

RankRows ==
    {With(BaseRow, f, v) : f \in RankFields, v \in RankValues}
    \cup {Without(BaseRow, f) : f \in RankFields}

(* Rosters *)

Filler == Player(EmptyText, StrV(<<"F">>), EmptyText, EmptyText, EmptyText)

RosterRow(v) == With(BaseRow, "roster", v)

(* the entries after the fifth: none, or up to MaxRoster - 5 copies of an entry of E *)
Tails(E) == {<<>>} \cup {[i \in 1..n |-> e] : n \in 1..(MaxRoster - 5), e \in E}

(* five entries: probe at index at, and among the others the first k are hit,
   the rest miss *)
Five(probe, at, k, hit, miss) ==
    [i \in 1..5 |->
        IF i = at THEN probe
        ELSE IF (IF i < at THEN i ELSE i - 1) <= k THEN hit ELSE miss]

WithClass(c) == Player(c, StrV(<<"F">>), EmptyText, EmptyText, EmptyText)
WithHeight(h) == Player(EmptyText, StrV(<<"F">>), h, EmptyText, EmptyText)
WithRsci(x) == Player(EmptyText, StrV(<<"F">>), EmptyText, x, EmptyText)
WithPts(p, x) == Player(EmptyText, p, EmptyText, EmptyText, x)

FR == StrV(<<"F", "R">>)
SO == StrV(<<"S", "O">>)
JR == StrV(<<"J", "R">>)
SR == StrV(<<"S", "R">>)

ClassValues == {FR, SO, JR, SR, EmptyText}
OtherClassValues == {Missing, None, StrV(<<"G", "R">>), StrV(<<"s", "r">>), IntV(4)}

ClassRosters ==
    {ListV([i \in 1..5 |-> WithClass(cs[i])] \o tail) :
        cs \in [1..5 -> ClassValues], tail \in Tails({WithClass(SR), WithClass(FR)})}
    \cup {ListV(Five(WithClass(c), at, k, WithClass(JR), WithClass(SO))) :
            c \in OtherClassValues, at \in 1..5, k \in 0..4}

ClassRows == {RosterRow(Src(v)) : v \in ClassRosters}

Tall == StrV(<<"6", "-", "6">>)
Short == StrV(<<"6", "-", "5">>)

HeightSamples ==
    {StrV(<<"6", "-", "8">>), StrV(<<"6", "-", "9">>), StrV(<<"7", "-", "0">>),
     StrV(<<"5", "-", "9">>), StrV(<<"6", "-", "1">>), StrV(<<"N", "/", "A">>),
     StrV(<<"6", "-", "1", "0">>), StrV(<<"6", "-", "8", "-", "1">>),
     StrV(<<" ", "6", "-", " ", "8">>), StrV(<<"6", "-", "+", "6">>), StrV(<<"6", "'", "8">>),
     StrV(<<"6", "-", "\t", "8">>), StrV(<<"\n", "6", "-", "6">>), StrV(<<"6", "\r", "-", "6", "\f">>),
     StrV(<<"6", "-", "5", "\n">>), StrV(<<"6", "\t", "6">>), StrV(<<"6", "-", "\t">>),
     StrV(<<"6", "-", VT, "8">>), StrV(<<VT, "6", "-", "6">>), StrV(<<"6", NBSP, "-", NEL, "6">>),
     StrV(<<"6", "-", FS, "8">>), StrV(<<"6", "-", "8", US>>), StrV(<<"໖", "-", "৬">>),
     StrV(<<"໖", "-", "໕">>),
     StrV(<<"7", "-">> \o AtLimit(<<"5">>)), StrV(<<"7", "-">> \o OverLimit(<<"5">>)),
     StrV(AtLimit(<<"7">>) \o <<"-", "5">>), StrV(OverLimit(<<"7">>) \o <<"-", "5">>),
     EmptyText, Missing, None}

HeightTexts == {StrV(t) : t \in TextsUpTo({"5", "6", "1", "-", "N"}, MaxHeightLen)}

SizeRosters ==
    {ListV(Five(WithHeight(h), at, k, WithHeight(Tall), WithHeight(Short)) \o tail) :
        h \in HeightSamples \cup HeightTexts, at \in {1, 5}, k \in 0..4,
        tail \in Tails({WithHeight(Tall)})}
    \cup {ListV([i \in 1..5 |-> WithHeight(hs[i])]) :
            hs \in [1..5 -> {Tall, Short, StrV(<<"N", "/", "A">>)}]}
    \cup {ListV(<<WithHeight(StrV(<<"6", "-", "8">>)), WithHeight(StrV(<<"6", "-", "9">>)),
                  WithHeight(StrV(<<"7", "-", "0">>)), WithHeight(StrV(<<"5", "-", "9">>)),
                  WithHeight(StrV(<<"6", "-", "1">>))>>)}

SizeRows == {RosterRow(Src(v)) : v \in SizeRosters}

RsciSamples ==
    {StrV(<<"3", "7", " ", "(", "2", "0", "2", "1", ")">>), StrV(<<"8", "2">>),
     StrV(<<"1", "5", "0">>), StrV(<<"5">>), StrV(<<"1", "0", "0">>), StrV(<<"1", "0", "1">>),
     StrV(<<"0", "0", "9", "9">>), StrV(<<"N", "R">>), StrV(<<"#", "5">>),
     StrV(<<"\t", "5">>), StrV(<<"5", "\t">>), StrV(<<"1", "0", "0", "\n">>),
     StrV(<<VT, "5">>), StrV(<<"5", VT>>), StrV(<<"໕">>), StrV(<<"1", "໐", "০">>),
     StrV(<<"1", "০", "໑">>),
     StrV(AtLimit(<<"5">>) \o <<" ", "(", "2", "0", "2", "1", ")">>),
     StrV(OverLimit(<<"5">>) \o <<" ", "(", "2", "0", "2", "1", ")">>),
     StrV(OverLimit(<<"1", "5", "0">>)),
     EmptyText, Missing}

RsciTexts == {StrV(t) : t \in TextsUpTo({"0", "1", "5", " ", "("}, MaxRsciLen)}

RecruitRosters ==
    {ListV(Five(WithRsci(x), at, k, WithRsci(StrV(<<"5">>)), WithRsci(StrV(<<"1", "5", "0">>)))
           \o tail) :
        x \in RsciSamples \cup RsciTexts, at \in {1, 5}, k \in 0..2,
        tail \in Tails({WithRsci(StrV(<<"5">>))})}
    \cup {ListV(<<WithRsci(StrV(<<"3", "7", " ", "(", "2", "0", "2", "1", ")">>)),
                  WithRsci(StrV(<<"8", "2">>)), WithRsci(StrV(<<"1", "5", "0">>)),
                  WithRsci(EmptyText), WithRsci(StrV(<<"5">>))>>)}

RecruitRows == {RosterRow(Src(v)) : v \in RecruitRosters}

PG == StrV(<<"P", "G">>)
Forward == StrV(<<"F">>)
Pts == <<" ", "P", "t", "s">>

PosValues ==
    {StrV(<<"G">>), PG, StrV(<<"S", "G">>), Forward, StrV(<<"C">>), StrV(<<"p", "g">>),
     StrV(<<"G", "F">>), EmptyText, Missing}

AsciiDigits == <<"0", "1", "2", "3", "4", "5", "6", "7", "8", "9">>

\* a figure as text: the digits of whole, a dot, the digits of frac
Figure(whole, frac) ==
    [i \in 1..Len(whole) |-> AsciiDigits[whole[i] + 1]] \o <<".">>
        \o [i \in 1..Len(frac) |-> AsciiDigits[frac[i] + 1]]

\* figures next to 15: at the half gap above it, just under and just over the
\* half gap, at the half gap below 15 and just under that
NearFifteen ==
    {Figure(<<1, 5>>, HalfGap), Figure(<<1, 5>>, HalfGap \o <<1>>),
     Figure(<<1, 5>>, [HalfGap EXCEPT ![50] = 4]), Figure(<<0, 1, 5>>, HalfGap \o <<0>>),
     Figure(<<1, 4>>, BelowGap), Figure(<<1, 4>>, [BelowGap EXCEPT ![50] = 4]),
     Figure(<<1, 5>>, <<0, 0, 0, 0, 0, 0, 0, 0, 0, 0, 0, 0, 0, 0, 0, 5>>),
     Figure(<<1, 5>>, <<0, 0, 0, 0, 0, 0, 0, 0, 0, 0, 0, 0, 0, 0, 0, 9>>),
     Figure(<<1, 5>>, <<0, 0, 0, 0, 0, 0, 0, 0, 0, 0, 0, 0, 0, 0, 1>>),
     Figure(<<1, 4>>, <<9, 9, 9, 9, 9, 9, 9, 9, 9, 9, 9, 9, 9, 9, 9, 9, 9, 9, 9, 9>>),
     Figure(<<1, 4>>, <<9, 9, 9, 9, 9, 9, 9, 9, 9, 9, 9, 9, 9, 9>>)}

SummarySamples ==

    {StrV(<<"1", "6", ".", "2">> \o Pts \o <<",", " ", "3", " ", "A", "s", "t">>),
     StrV(<<"1", "4", ".", "9">> \o Pts), StrV(<<"1", "5", ".", "0">> \o Pts),
     StrV(<<"1", "5", ".", "0", "1">> \o Pts), StrV(<<"1", "6", "P", "t", "s">>),
     StrV(<<"1", "6", " ", " ", "P", "t", "s">>), StrV(<<"1", "6", " ", "p", "t", "s">>),
     StrV(<<"1", "6", " ", "P", "t">>), StrV(<<" ", "1", "6">> \o Pts),
     StrV(<<"4", " ", "R", "e", "b", ",", " ", "1", "6">> \o Pts),
     StrV(<<"1", "6", "\t", "P", "t", "s">>), StrV(<<"1", "6", "\n", "P", "t", "s">>),
     StrV(<<"1", "6", " ", "\t", "\r", "\n", "P", "t", "s">>),
     StrV(<<"1", "6", ".", "\f", "P", "t", "s">>), StrV(<<"1", "5", "\t", "P", "t", "s">>),
     StrV(<<"\t", "1", "6">> \o Pts), StrV(<<"1", "6", "\t", ".", "5">> \o Pts),
     StrV(<<"1", "6", VT, "P", "t", "s">>), StrV(<<"1", "6", FS, "P", "t", "s">>),
     StrV(<<"1", "6", US, GS, RS, NEL, NBSP, OghamSpace, "P", "t", "s">>),
     StrV(<<"1", "5", VT, "P", "t", "s">>), StrV(<<VT, "1", "6">> \o Pts),
     StrV(<<"໑", "৬", ".", "໒">> \o Pts), StrV(<<"1", "໕", ".", "০">> \o Pts),
     StrV(<<"১", "໕">> \o Pts),
     StrV(<<"1", "6", ".", "2">>), EmptyText, Missing, None}
    \cup {StrV(t \o Pts) : t \in NearFifteen}

PtsTexts == {StrV(t \o Pts) : t \in TextsUpTo({"0", "1", "5", "."}, MaxPtsLen)}

HighForward == WithPts(Forward, StrV(<<"2", "0", ".", "0">> \o Pts))
LowGuard == WithPts(PG, StrV(<<"1", "5", ".", "0">> \o Pts))

GuardRosters ==
    {ListV(Five(WithPts(p, x), at, 2, HighForward, LowGuard) \o tail) :
        p \in {PG, Forward}, x \in SummarySamples \cup PtsTexts, at \in {1, 5},
        tail \in Tails({WithPts(PG, StrV(<<"2", "0">> \o Pts))})}
    \cup {ListV(Five(WithPts(p, x), at, 2, HighForward, LowGuard)) :
            p \in PosValues, x \in SummarySamples, at \in {1, 3, 5}}

GuardRows == {RosterRow(Src(v)) : v \in GuardRosters}

Star ==
    Player(SR, PG, StrV(<<"6", "-", "8">>), StrV(<<"5">>), StrV(<<"2", "0", ".", "0">> \o Pts))
Odd == Player(FR, PG, IntV(80), None, FloatV(162))

EntrySamples == {Star, Filler, Odd, StrV(<<"x">>)}

ShortRosters == UNION {[1..n -> EntrySamples] : n \in 0..4}

LongRosters ==
    {first \o tail : first \in [1..5 -> EntrySamples], tail \in Tails(EntrySamples)}

AnyRosterRows ==
    {RosterRow(Src(ListV(es))) : es \in ShortRosters \cup LongRosters}
    \cup {RosterRow(ListV(es)) : es \in ShortRosters}
    \cup {RosterRow(Src(StrV(t))) : t \in {<<"a">>, <<"a", "b", "c", "d">>}}
    \cup {RosterRow(Src(Player(SR, PG, Missing, Missing, Missing)))}

(* roster cells that are no list of player records with text fields *)
MalformedRosterCells ==
    {NaN, None, IntV(5), IntV(0), FloatV(0), FloatV(25),
     BadSrc("SyntaxError"), BadSrc("ValueError"), BadSrc("TypeError"),
     BadSrc("IndentationError"), BadSrc("UnicodeEncodeError"), BadSrc("UnicodeTranslateError"),
     Src(IntV(5)), Src(IntV(0)), Src(None), Src(StrV(<<"a", "b", "c">>)),
     Src(StrV(<<"a", "b", "c", "d", "e">>)), Src(Star), Src(Player(SR, PG, Missing, Missing, Missing)),
     ListV(<<>>), Src(ListV(<<>>)), Src(ListV(<<Star, Star, Star, Star>>)),
     Src(ListV(<<Star, Star, Star, Star, Star>>)), ListV(<<Star, Star, Star, Star, Star>>)}
    \cup {Src(ListV(Five(e, at, 4, Star, Filler))) :
            e \in {Odd, StrV(<<"x">>), None, IntV(7),
                   WithRsci(None), WithRsci(IntV(37)),
                   WithHeight(IntV(80)), WithHeight(None), WithHeight(StrV(<<"N", "/", "A">>)),
                   WithPts(PG, FloatV(162)), WithPts(PG, None), WithPts(None, EmptyText),
                   WithClass(None), WithClass(IntV(4))},
            at \in {1, 5}}

RecordRows ==
    {RosterRow(v) : v \in MalformedRosterCells}
    \cup {Without(BaseRow, "roster")}
    \cup {With(BaseRow, f, v) :
            f \in RankFields,
            v \in {None, NaN, Inf, EmptyText, StrV(<<"a", "b", "c">>), StrV(<<"5", "0">>),
                   StrV(<<"3", "0", "0">>), IntV(50), FloatV(500)}}
    \cup {Without(BaseRow, f) : f \in RankFields}
    \cup {[c \in {"year", "team"} |-> BaseRow[c]]}

ParseInputs ==
    MalformedRosterCells
    \cup {Src(ListV(es)) : es \in ShortRosters}
    \cup {ListV(es) : es \in [1..2 -> EntrySamples]}

----------------------------------------------------------------------------
(* Calling one predicate on one record *)

InitCall(rows) ==
    /\ row \in rows
    /\ fn = "none"
    /\ res = Ret(FALSE)
    /\ roster_str = None
    /\ parsed = Ret(None)
    /\ stats_df = <<>>
    /\ analysis_df = <<>>
    /\ pc = "call"
    /\ col = 0

Call(name) ==
    /\ pc = "call"
    /\ fn' = name
    /\ res' = Apply(name, row)
    /\ UNCHANGED <<row, roster_str, parsed, stats_df, analysis_df, pc, col>>

CanScore == Call("Can Score")
ForcesTurnovers == Call("Forces Turnovers")
ProtectsTheBall == Call("Protects the Ball")
HighVolume3PTTeam == Call("High Volume 3PT Team")
EliteOffensiveRebounding == Call("Elite Offensive Rebounding")
GoodDefense == Call("Good Defense")
DefendsThreePoint == Call("Defends Three Point")
GoodFreeThrowTeam == Call("Good Free Throw Team")
ExperiencedCore == Call("Experienced Core")
MultipleTopRecruits == Call("Multiple Top Recruits")
HasScoringGuard == Call("Has Scoring Guard")
HasSize == Call("Has Size")

NextCall ==
    \/ CanScore
    \/ ForcesTurnovers
    \/ ProtectsTheBall
    \/ HighVolume3PTTeam
    \/ EliteOffensiveRebounding
    \/ GoodDefense
    \/ DefendsThreePoint
    \/ GoodFreeThrowTeam
    \/ ExperiencedCore
    \/ MultipleTopRecruits
    \/ HasScoringGuard
    \/ HasSize

SpecRank == InitCall(RankRows) /\ [][NextCall]_vars
SpecClass == InitCall(ClassRows) /\ [][NextCall]_vars
SpecSize == InitCall(SizeRows) /\ [][NextCall]_vars
SpecRecruit == InitCall(RecruitRows) /\ [][NextCall]_vars
SpecGuard == InitCall(GuardRows) /\ [][NextCall]_vars
SpecRoster == InitCall(AnyRosterRows) /\ [][NextCall]_vars
SpecRecord == InitCall(RecordRows) /\ [][NextCall]_vars

----------------------------------------------------------------------------
(* Calling parse_roster *)

InitParse ==
    /\ roster_str \in ParseInputs
    /\ parsed = Ret(None)
    /\ fn = "none"
    /\ row = BaseRow
    /\ res = Ret(FALSE)
    /\ stats_df = <<>>
    /\ analysis_df = <<>>
    /\ pc = "parse"
    /\ col = 0

ParseRoster ==
    /\ pc = "parse"
    /\ fn' = "parse_roster"
    /\ parsed' = parse_roster(roster_str)
    /\ UNCHANGED <<row, res, roster_str, stats_df, analysis_df, pc, col>>

SpecParse == InitParse /\ [][ParseRoster]_vars

----------------------------------------------------------------------------
(* analyze_teams *)

Yes == StrV(<<"Y", "e", "s">>)
No == StrV(<<"N", "o">>)

Duke == StrV(<<"D", "u", "k", "e">>)
UNC == StrV(<<"U", "N", "C">>)

FiveStars == Src(ListV(<<Star, Star, Star, Star, Star>>))

TableRow(year, team, rank, roster) ==
    [c \in Columns |->
        CASE c = "year" -> year
          [] c = "team" -> team
          [] c = "roster" -> roster
          [] OTHER -> rank]

(* rows of the input table: a complete one, one with the same (year, team) and
   other content, and rows with unparsable or empty cells *)
TableRows ==
    {TableRow(IntV(2024), Duke, IntV(50), FiveStars),
     TableRow(IntV(2024), Duke, StrV(<<"a", "b", "c">>), Src(ListV(<<>>))),
     TableRow(IntV(2024), UNC, IntV(300), NaN),
     TableRow(IntV(2023), UNC, NaN, BadSrc("SyntaxError")),
     TableRow(IntV(2023), Duke, IntV(51),
              Src(ListV(<<Star, Star, Star, Star, WithRsci(None)>>)))}

(* the columns a table may lack; every row of a table has the table's columns *)
Dropped == {{}, {"roster"}, {"TOV Rank"}, {"year"}, {"team"}}

(* tables of 1 to MaxRows rows; what pandas does on a table without rows is not
   modelled *)
Tables ==
    {[i \in 1..Len(rows) |-> [c \in Columns \ d |-> rows[i][c]]] :
        rows \in UNION {[1..m -> TableRows] : m \in 1..MaxRows}, d \in Dropped}

Init ==
    /\ stats_df \in Tables
    /\ analysis_df = <<>>
    /\ pc = "select"
    /\ col = 0
    /\ row = BaseRow
    /\ fn = "none"
    /\ res = Ret(FALSE)
    /\ roster_str = None
    /\ parsed = Ret(None)

(* the columns of the table *)
TableColumns(df) == DOMAIN df[1]

(* analysis_df = stats_df[['year', 'team']].copy(); KeyError when the table
   lacks one of the two columns, which ends analyze_teams *)
SelectKeys ==
    /\ pc = "select"
    /\ IF {"year", "team"} \subseteq TableColumns(stats_df)
       THEN /\ analysis_df' = [i \in 1..Len(stats_df) |->
                                  [c \in {"year", "team"} |-> stats_df[i][c]]]
            /\ pc' = "apply"
            /\ col' = 1
            /\ UNCHANGED <<fn, res>>
       ELSE /\ pc' = "raised"
            /\ fn' = "analyze_teams"
            /\ res' = Raise("KeyError")
            /\ UNCHANGED <<analysis_df, col>>
    /\ UNCHANGED <<row, roster_str, parsed, stats_df>>

(* stats_df.apply(func, axis=1): the outcome of func on each row *)
Outcomes(name) == [i \in 1..Len(stats_df) |-> Apply(name, stats_df[i])]

Raising(outs) == {i \in 1..Len(outs) : outs[i].exc # "none"}

FirstRaising(outs) == CHOOSE j \in Raising(outs) : \A k \in Raising(outs) : j <= k

(* the call whose exception ends analyze_teams *)
Abort(name, i, outcome) ==
    /\ pc' = "raised"
    /\ fn' = name
    /\ row' = stats_df[i]
    /\ res' = outcome
    /\ UNCHANGED <<analysis_df, col>>

(* analysis_df[col_name] = the column of results *)
SetColumn(name, outs) ==
    /\ analysis_df' = [i \in 1..Len(stats_df) |-> With(analysis_df[i], name, outs[i].val)]
    /\ col' = IF col = Len(ANALYSIS_FUNCTIONS) THEN 1 ELSE col + 1
    /\ pc' = IF col = Len(ANALYSIS_FUNCTIONS) THEN "map" ELSE "apply"
    /\ UNCHANGED <<row, fn, res>>

(* analysis_df[col_name] = stats_df.apply(func, axis=1): the rows in order; an
   exception of a call ends analyze_teams *)
ApplyFunction ==
    /\ pc = "apply"
    /\ col <= Len(ANALYSIS_FUNCTIONS)
    /\ \E outs \in {Outcomes(ANALYSIS_FUNCTIONS[col])} :
          IF Raising(outs) # {}
          THEN Abort(ANALYSIS_FUNCTIONS[col], FirstRaising(outs), outs[FirstRaising(outs)])
          ELSE SetColumn(ANALYSIS_FUNCTIONS[col], outs)
    /\ UNCHANGED <<roster_str, parsed, stats_df>>

(* analysis_df[col] = analysis_df[col].map({True: 'Yes', False: 'No'}) *)
MapColumn ==
    /\ pc = "map"
    /\ col <= Len(ANALYSIS_FUNCTIONS)
    /\ LET name == ANALYSIS_FUNCTIONS[col]
       IN  analysis_df' = [i \in 1..Len(analysis_df) |->
                              With(analysis_df[i], name,
                                   IF analysis_df[i][name] THEN Yes ELSE No)]
    /\ col' = col + 1
    /\ UNCHANGED <<row, fn, res, roster_str, parsed, stats_df, pc>>

(* return analysis_df *)
Return ==
    /\ pc = "map"
    /\ col > Len(ANALYSIS_FUNCTIONS)
    /\ pc' = "done"
    /\ UNCHANGED <<row, fn, res, roster_str, parsed, stats_df, analysis_df, col>>

Next ==
    \/ SelectKeys
    \/ ApplyFunction
    \/ MapColumn
    \/ Return

Spec == Init /\ [][Next]_vars

----------------------------------------------------------------------------
(* What the claims speak of, stated on the inputs *)

RankPredicates ==
    {"Can Score", "Forces Turnovers", "High Volume 3PT Team", "Elite Offensive Rebounding",
     "Good Defense", "Defends Three Point", "Good Free Throw Team"}

RosterPredicates ==
    {"Experienced Core", "Multiple Top Recruits", "Has Scoring Guard", "Has Size"}

FieldOf(name) ==
    CASE name = "Can Score" -> "PTS Rank"
      [] name = "Forces Turnovers" -> "Opponent TOV Rank"
      [] name = "Protects the Ball" -> "TOV Rank"
      [] name = "High Volume 3PT Team" -> "3P Rank"
      [] name = "Elite Offensive Rebounding" -> "ORB Rank"
      [] name = "Good Defense" -> "Opponent PTS Rank"
      [] name = "Defends Three Point" -> "Opponent 3P% Rank"
      [] name = "Good Free Throw Team" -> "FT% Rank"
      [] OTHER -> "roster"

Has(r, key) == key \in DOMAIN r
IsText(v) == v.t = "str"

(* the first and the last character of s that is no whitespace *)
FirstInk(s) ==
    CHOOSE i \in 1..Len(s) : s[i] \notin WhiteSpace /\ \A j \in 1..(i - 1) : s[j] \in WhiteSpace
LastInk(s) ==
    CHOOSE i \in 1..Len(s) : s[i] \notin WhiteSpace /\ \A j \in (i + 1)..Len(s) : s[j] \in WhiteSpace

(* where the digits of s start: after the whitespace and the sign, if any *)
FirstDigit(s) == IF s[FirstInk(s)] \in {"+", "-"} THEN FirstInk(s) + 1 ELSE FirstInk(s)

(* the text writes an integer: between whitespace, an optional sign and then
   digits, where one underscore may stand between two digits *)
IsNumeral(s) ==
    /\ \E i \in 1..Len(s) : s[i] \notin WhiteSpace
    /\ FirstDigit(s) <= LastInk(s)
    /\ \A i \in FirstDigit(s)..LastInk(s) :
          \/ IsDigit(s[i])
          \/ /\ s[i] = "_"
             /\ FirstDigit(s) < i
             /\ i < LastInk(s)
             /\ IsDigit(s[i - 1])
             /\ IsDigit(s[i + 1])

(* the integer a numeral writes, and the number of its digits *)
NumeralValue(s) ==
    IF s[FirstInk(s)] = "-" THEN 0 - Decimal(SelectSeq(s, IsDigit))
    ELSE Decimal(SelectSeq(s, IsDigit))
NumeralDigits(s) == Len(SelectSeq(s, IsDigit))

(* the integers the cell parses as: none when it writes no integer, else one.
   A number cell stands for its whole part; null, NaN and infinity for none *)
RankOf(v) ==
    CASE v.t = "str" -> IF IsNumeral(v.s) THEN {NumeralValue(v.s)} ELSE {}
      [] v.t = "int" -> {v.n}
      [] v.t = "float" -> {IF v.tenths >= 0 THEN v.tenths \div 10 ELSE 0 - ((0 - v.tenths) \div 10)}
      [] OTHER -> {}

(* the field is present and parses as an integer for which Test holds *)
RankIs(r, key, Test(_)) == Has(r, key) /\ \E n \in RankOf(r[key]) : Test(n)

AtMost50(n) == n <= 50
AtLeast300(n) == n >= 300

(* the field is absent, or parses as no integer *)
RankUnparsable(r, key) == ~Has(r, key) \/ RankOf(r[key]) = {}

(* the entries of the roster a row of the roster specifications holds *)
Entries(r) ==
    IF r["roster"].t = "src" THEN r["roster"].val.items ELSE r["roster"].items

HoldsRoster(r) ==
    /\ Has(r, "roster")
    /\ \/ r["roster"].t = "list"
       \/ r["roster"].t = "src" /\ r["roster"].parse = "ok" /\ r["roster"].val.t = "list"

(* the height splits on "-" into exactly two parts for which Test holds *)
SplitsInTwo(h, Test(_, _)) ==
    /\ IsText(h)
    /\ \E i \in 1..Len(h.s) :
          /\ h.s[i] = "-"
          /\ \A j \in 1..Len(h.s) : h.s[j] = "-" => j = i
          /\ Test(SubSeq(h.s, 1, i - 1), SubSeq(h.s, i + 1, Len(h.s)))

(* two integer parts, feet and inches, with feet * 12 + inches >= 78 *)
TallParts(feet, inches) ==
    /\ IsNumeral(feet)
    /\ IsNumeral(inches)
    /\ NumeralValue(feet) * 12 + NumeralValue(inches) >= 78

(* TallParts where neither part has more than int_max_str_digits digits *)
TallPartsWithinLimit(feet, inches) ==
    /\ NumeralDigits(feet) <= int_max_str_digits
    /\ NumeralDigits(inches) <= int_max_str_digits
    /\ TallParts(feet, inches)

(* a text that starts with a run of digits whose value is at most 100 *)
StartsWithRankAtMost100(x) ==
    /\ IsText(x)
    /\ \E n \in 1..Len(x.s) :
          /\ n < Len(x.s) => ~IsDigit(x.s[n + 1])
          /\ \A j \in 1..n : IsDigit(x.s[j])
          /\ Decimal(SubSeq(x.s, 1, n)) <= 100

(* digits, then optionally a dot and digits *)
IsFigure(t) ==
    /\ t # <<>>
    /\ IsDigit(t[1])
    /\ \A j \in 1..Len(t) : IsDigit(t[j]) \/ t[j] = "."
    /\ Cardinality({j \in 1..Len(t) : t[j] = "."}) <= 1

(* where the dot of the figure is: past its end when it has none *)
DotAt(t) ==
    IF \A j \in 1..Len(t) : t[j] # "." THEN Len(t) + 1
    ELSE CHOOSE j \in 1..Len(t) : t[j] = "."

WholeOf(t) == Decimal(SubSeq(t, 1, DotAt(t) - 1))

(* the figure is greater than 15 *)
FigureAbove15(t) ==
    \/ WholeOf(t) > 15
    \/ WholeOf(t) = 15 /\ \E j \in (DotAt(t) + 1)..Len(t) : DigitVal(t[j]) # 0

(* the digit of the figure at place i after its decimal point *)
FractionDigit(t, i) == IF DotAt(t) + i <= Len(t) THEN DigitVal(t[DotAt(t) + i]) ELSE 0

(* the digit of 2^-50 at place i after the decimal point *)
HalfGapDigit(i) == IF i <= Len(HalfGap) THEN HalfGap[i] ELSE 0

(* the figure is greater than 15 + 2^-50: the figures whose nearest double is
   greater than 15.0 *)
FigureRoundsAbove15(t) ==
    \/ WholeOf(t) > 15
    \/ /\ WholeOf(t) = 15
       /\ \E i \in 1..Len(t) :
             /\ FractionDigit(t, i) > HalfGapDigit(i)
             /\ \A j \in 1..(i - 1) : FractionDigit(t, j) = HalfGapDigit(j)

(* a summary that starts with a figure for which Test holds, followed by
   optional whitespace and the token Pts *)
StartsWithPoints(x, Test(_)) ==
    /\ IsText(x)
    /\ \E i \in 1..Len(x.s) : \E j \in i..Len(x.s) :
          /\ IsFigure(SubSeq(x.s, 1, i))
          /\ \A k \in (i + 1)..j : x.s[k] \in RegexSpace
          /\ j + 3 <= Len(x.s)
          /\ SubSeq(x.s, j + 1, j + 3) = <<"P", "t", "s">>
          /\ Test(SubSeq(x.s, 1, i))

IsGuard(e) == e.f.pos \in {StrV(<<"G">>), StrV(<<"P", "G">>), StrV(<<"S", "G">>)}

Count(es, Test(_)) == Cardinality({i \in 1..5 : Test(es[i])})

IsUpper(e) == e.f.class \in {JR, SR}
IsLower(e) == e.f.class \in {FR, SO}
EntryIsTall(e) == SplitsInTwo(e.f.height, TallParts)
EntryIsTallWithinLimit(e) == SplitsInTwo(e.f.height, TallPartsWithinLimit)
EntryIsTopRecruit(e) == StartsWithRankAtMost100(e.f.rsci_rank)
EntryIsScoringGuard(e) == IsGuard(e) /\ StartsWithPoints(e.f.stats_summary, FigureAbove15)
EntryIsRoundedScoringGuard(e) ==
    IsGuard(e) /\ StartsWithPoints(e.f.stats_summary, FigureRoundsAbove15)

----------------------------------------------------------------------------
(* The claims *)

Called == fn \in {ANALYSIS_FUNCTIONS[i] : i \in 1..Len(ANALYSIS_FUNCTIONS)}

(* the field the predicate consumes is missing, or is not what the data model
   says: a rank that is no integer, a roster that is no list of player records
   with text fields *)
FieldUnusable(name, r) ==
    IF name \in RosterPredicates
    THEN \/ ~HoldsRoster(r)
         \/ \E i \in 1..Len(Entries(r)) :
               \/ Entries(r)[i].t # "dict"
               \/ \E k \in PlayerKeys : Entries(r)[i].f[k].t \notin {"str", "missing"}
    ELSE ~Has(r, FieldOf(name)) \/ py_int(r[FieldOf(name)]).exc # "none"

\* C1: every registered predicate, on every record, returns a boolean and never
\* raises, and returns false whenever the field it consumes is missing, null,
\* empty or malformed.
C1_PredicatesNeverRaise ==
    Called =>
        /\ res.exc = "none"
        /\ res.val \in BOOLEAN
        /\ FieldUnusable(fn, row) => res.val = FALSE

\* C2: analyze_teams completes on every table, malformed cells and duplicate
\* (year, team) rows included, and returns one row per input row, in the input
\* order, with the year and team of that input row.
C2_AnalyzeTeamsKeepsEveryRow ==
    /\ pc # "raised"
    /\ pc = "done" =>
          /\ Len(analysis_df) = Len(stats_df)
          /\ \A i \in 1..Len(stats_df) :
                /\ analysis_df[i]["year"] = stats_df[i]["year"]
                /\ analysis_df[i]["team"] = stats_df[i]["team"]

\* C3: each of the seven lower-is-better rank predicates gives, on every record,
\* true exactly when its field is present and parses as an integer that is at
\* most 50, and false otherwise; "50" gives Yes, "51" gives No, an unparsable
\* rank such as "abc" gives No, an absent field gives No.
C3_RankAtMost50 ==
    fn \in RankPredicates =>
        /\ res = Ret(RankIs(row, FieldOf(fn), AtMost50))
        /\ RankUnparsable(row, FieldOf(fn)) => res = Ret(FALSE)
        /\ Has(row, FieldOf(fn)) =>
              /\ row[FieldOf(fn)] = StrV(<<"5", "0">>) => res = Ret(TRUE)
              /\ row[FieldOf(fn)] = StrV(<<"5", "1">>) => res = Ret(FALSE)
              /\ row[FieldOf(fn)] = StrV(<<"a", "b", "c">>) => res = Ret(FALSE)

\* C4: Protects the Ball gives, on every record, true exactly when 'TOV Rank' is
\* present and parses as an integer that is at least 300, and false otherwise;
\* "300" gives Yes, "299" gives No, a rank of 50 or below gives No, an absent or
\* unparsable field gives No.
C4_ProtectsAtLeast300 ==
    fn = "Protects the Ball" =>
        /\ res = Ret(RankIs(row, "TOV Rank", AtLeast300))
        /\ RankUnparsable(row, "TOV Rank") => res = Ret(FALSE)
        /\ RankIs(row, "TOV Rank", AtMost50) => res = Ret(FALSE)
        /\ Has(row, "TOV Rank") =>
              /\ row["TOV Rank"] = StrV(<<"3", "0", "0">>) => res = Ret(TRUE)
              /\ row["TOV Rank"] = StrV(<<"2", "9", "9">>) => res = Ret(FALSE)

\* C5: with fewer than 5 roster entries, whatever they are, each of the four
\* roster predicates returns false; with 5 or more, its result is the one it
\* gives on the first 5 entries alone.
C5_FirstFiveDecide ==
    (fn \in RosterPredicates /\ HoldsRoster(row)) =>
        /\ Len(Entries(row)) < 5 => res = Ret(FALSE)
        /\ Len(Entries(row)) >= 5 =>
              res = Apply(fn, RosterRow(ListV(SubSeq(Entries(row), 1, 5))))

C5_Witness ==
    /\ fn = "Has Size"
    /\ HoldsRoster(row)
    /\ Entries(row) = <<Star, Star, Filler, Filler, Filler, Star>>
    /\ res = Ret(FALSE)

\* C6 as the specification states it: with at least 5 entries, Has Size is true
\* exactly when at least 3 of the first 5 have a height that splits on "-" into
\* two integer parts with feet * 12 + inches >= 78, integers of any number of
\* digits.
C6_HasSizeAnyLength ==
    (fn = "Has Size" /\ Len(Entries(row)) >= 5) =>
        res = Ret(Count(Entries(row), EntryIsTall) >= 3)

\* C6: with at least 5 entries, Has Size is true exactly when at least 3 of the
\* first 5 have a height that splits on "-" into two integer parts, neither of
\* more than 4300 digits, with feet * 12 + inches >= 78; an entry whose height is
\* empty, does not split or parse, or has a part of more than 4300 digits, is
\* left out of the count and the others are still counted.
C6_HasSize ==
    (fn = "Has Size" /\ Len(Entries(row)) >= 5) =>
        res = Ret(Count(Entries(row), EntryIsTallWithinLimit) >= 3)

C6_Witness ==
    /\ fn = "Has Size"
    /\ Len(Entries(row)) >= 5
    /\ Entries(row)[1].f.height = StrV(<<"7", "-">> \o OverLimit(<<"5">>))
    /\ Count(Entries(row), EntryIsTall) = 3
    /\ Count(Entries(row), EntryIsTallWithinLimit) = 2
    /\ res = Ret(FALSE)

\* C7 as the specification states it: with at least 5 entries, Has Scoring Guard
\* is true exactly when one of the first 5 is a guard (G, PG, SG) whose summary
\* starts with a points figure, followed by Pts, that is greater than 15.0.
C7_HasScoringGuardExact ==
    (fn = "Has Scoring Guard" /\ Len(Entries(row)) >= 5) =>
        res = Ret(\E i \in 1..5 : EntryIsScoringGuard(Entries(row)[i]))

\* C7: with at least 5 entries, Has Scoring Guard is true exactly when one of
\* the first 5 is a guard (G, PG, SG) whose summary starts with a points
\* figure, followed by Pts, whose nearest double-precision number is greater
\* than 15.0, which are the figures greater than 15 + 2^-50.
C7_HasScoringGuard ==
    (fn = "Has Scoring Guard" /\ Len(Entries(row)) >= 5) =>
        res = Ret(\E i \in 1..5 : EntryIsRoundedScoringGuard(Entries(row)[i]))

C7_Witness ==
    /\ fn = "Has Scoring Guard"
    /\ Len(Entries(row)) >= 5
    /\ Entries(row)[1] =
          WithPts(PG, StrV(Figure(<<1, 5>>, <<0, 0, 0, 0, 0, 0, 0, 0, 0, 0, 0, 0, 0, 0, 0, 5>>)
                           \o Pts))
    /\ EntryIsScoringGuard(Entries(row)[1])
    /\ \A i \in 1..5 : ~EntryIsRoundedScoringGuard(Entries(row)[i])
    /\ res = Ret(FALSE)

\* C8: with at least 5 entries, Multiple Top Recruits is true exactly when at
\* least 2 of the first 5 have an rsci_rank that starts with digits whose value
\* is at most 100, whatever follows them; an empty rank or one without leading
\* digits does not count, and none is an error.
C8_MultipleTopRecruits ==
    (fn = "Multiple Top Recruits" /\ Len(Entries(row)) >= 5) =>
        res = Ret(Count(Entries(row), EntryIsTopRecruit) >= 2)

\* C9: with at least 5 entries, Experienced Core is true exactly when, among the
\* first 5, more entries have class JR or SR than have class FR or SO; other
\* classes count for neither side and a tie gives false.
C9_ExperiencedCore ==
    (fn = "Experienced Core" /\ Len(Entries(row)) >= 5) =>
        res = Ret(Count(Entries(row), IsUpper) > Count(Entries(row), IsLower))

C9_Witness ==
    /\ fn = "Experienced Core"
    /\ Entries(row) =
          <<WithClass(SR), WithClass(SR), WithClass(FR), WithClass(FR), WithClass(JR)>>
    /\ res = Ret(TRUE)

(* a list of player records *)
IsRoster(v) == v.t = "list" /\ \A i \in 1..Len(v.items) : v.items[i].t = "dict"

\* C10: parse_roster never raises; on a string that fails to parse, or that is a
\* literal of another shape than a list of records, it returns the empty
\* sequence; it returns any other input unchanged.
C10_ParseRosterTotal ==
    fn = "parse_roster" =>
        /\ parsed.exc = "none"
        /\ IsStr(roster_str) =>
              parsed.val = IF roster_str.parse = "ok" /\ IsRoster(roster_str.val)
                           THEN roster_str.val
                           ELSE ListV(<<>>)
        /\ ~IsStr(roster_str) => parsed.val = roster_str

====
